---- MODULE Spec2Model ----
(***************************************************************************)
(* Octree colour quantizer (octree_quantizer.py).                          *)
(*                                                                         *)
(* A node of the tree is named by its path from the root: the sequence of  *)
(* child indices 0..7 followed to reach it.  children[i] of the node p is  *)
(* present iff Append(p, i) is in the domain of nodes.  The level registry *)
(* maps a level to the sequence of paths registered there, in creation     *)
(* order.  Python's 0-based palette positions are kept as integers; the    *)
(* palette itself is a TLA+ sequence, so palette entry i is palette[i+1].  *)
(***************************************************************************)
EXTENDS Integers, Sequences, FiniteSets, TLC

\* ------------------------------------------------------------------ bounds
MaxDepthArg == 2
MaxAdds == 4
MaxTarget == 2
MaxOthers == 1

\* default of the max_depth parameter
DefaultMaxDepth == 8

\* ------------------------------------------------------------------ Color
Color(r, g, b) == [red |-> r, green |-> g, blue |-> b]

\* colours fed to add_color
AddColors ==
    { Color(0, 0, 0), Color(1, 64, 0), Color(128, 0, 0), Color(200, 100, 50) }

\* channel values of the colours looked up
QueryChannels == {0, 64, 255}

QueryColors == AddColors \cup { Color(0, 192, 0), Color(255, 255, 255) }

Depths == (1 .. MaxDepthArg) \cup {DefaultMaxDepth}

Targets == 0 .. MaxTarget

\* ------------------------------------------------------------- OctreeNode
NewNode == [color |-> Color(0, 0, 0), pixel_count |-> 0, palette_index |-> 0]

NoNodes == [p \in {} |-> NewNode]

RECURSIVE Pow2(_)
Pow2(n) == IF n <= 0 THEN 1 ELSE 2 * Pow2(n - 1)

\* 0x80 >> level
Mask(level) == 128 \div Pow2(level)

\* truth of (v & mask), mask a power of two or zero
BitSet(v, mask) == IF mask = 0 THEN FALSE ELSE (v \div mask) % 2 = 1

get_color_index_for_level(color, level) ==
    LET mask == Mask(level) IN
      (IF BitSet(color.red, mask) THEN 4 ELSE 0)
    + (IF BitSet(color.green, mask) THEN 2 ELSE 0)
    + (IF BitSet(color.blue, mask) THEN 1 ELSE 0)

HasChild(nodes, p, i) == Append(p, i) \in DOMAIN nodes

is_leaf(nodes, p) == nodes[p].pixel_count > 0

\* OctreeQuantizer.add_level_node; a level that is no key of the dict raises
add_level_node(q, level, p) ==
    IF level \in DOMAIN q.levels
    THEN [q EXCEPT !.levels[level] = Append(@, p)]
    ELSE [q EXCEPT !.ok = FALSE]

\* OctreeNode(level, parent), the new node being reached by path p.  A raise
\* in the constructor leaves the node unattached.
OctreeNode_init(q, p, level, MD) ==
    LET made == [q EXCEPT !.nodes = (p :> NewNode) @@ q.nodes] IN
    IF level < MD - 1
    THEN LET reg == add_level_node(made, level, p) IN
         IF reg.ok THEN reg ELSE [q EXCEPT !.ok = FALSE]
    ELSE made

\* the leaf takes the colour over instead of adding it to its sums
Accumulate_overwrite(node, color) ==
    [node EXCEPT !.color = Color(color.red, color.green, color.blue),
                 !.pixel_count = @ + 1]

Accumulate(node, color) ==
    [node EXCEPT !.color = Color(@.red + color.red, @.green + color.green,
                                 @.blue + color.blue),
                 !.pixel_count = @ + 1]

RECURSIVE add_color(_, _, _, _, _)
add_color(q, p, color, level, MD) ==
    IF level >= MD
    THEN [q EXCEPT !.nodes[p] = Accumulate(@, color)]
    ELSE LET index == get_color_index_for_level(color, level)
             c == Append(p, index)
         IN IF c \in DOMAIN q.nodes
            THEN add_color(q, c, color, level + 1, MD)
            ELSE LET made == OctreeNode_init(q, c, level, MD) IN
                 IF made.ok THEN add_color(made, c, color, level + 1, MD)
                 ELSE made

RECURSIVE get_leaf_nodes_from(_, _, _)
get_leaf_nodes_from(nodes, p, i) ==
    IF i > 7 THEN << >>
    ELSE LET c == Append(p, i)
             rest == get_leaf_nodes_from(nodes, p, i + 1)
         IN IF c \notin DOMAIN nodes THEN rest
            ELSE IF is_leaf(nodes, c) THEN <<c>> \o rest
            ELSE get_leaf_nodes_from(nodes, c, 0) \o rest

get_leaf_nodes(nodes, p) == get_leaf_nodes_from(nodes, p, 0)

\* the loop of remove_leaves from child i on; acc is [node, result]
RECURSIVE remove_leaves_from(_, _, _, _)
remove_leaves_from(nodes, p, i, acc) ==
    IF i > 7 THEN acc
    ELSE IF HasChild(nodes, p, i)
    THEN LET node == nodes[Append(p, i)]
             self == acc.node
         IN remove_leaves_from(nodes, p, i + 1,
              [node |-> [self EXCEPT
                           !.color = Color(@.red + node.color.red,
                                           @.green + node.color.green,
                                           @.blue + node.color.blue),
                           !.pixel_count = @ + node.pixel_count],
               result |-> acc.result + 1])
    ELSE remove_leaves_from(nodes, p, i + 1, acc)

\* the fold counts one pixel per child instead of the child's pixel_count
remove_leaves_count_children(nodes, p) ==
    LET acc == remove_leaves_from(nodes, p, 0, [node |-> nodes[p], result |-> 0])
    IN [nodes |-> [nodes EXCEPT ![p] =
                     [acc.node EXCEPT !.pixel_count =
                        nodes[p].pixel_count + acc.result]],
        result |-> acc.result - 1]

\* [nodes: the tree after the fold, result: the returned delta]
remove_leaves(nodes, p) ==
    LET acc == remove_leaves_from(nodes, p, 0, [node |-> nodes[p], result |-> 0])
    IN [nodes |-> [nodes EXCEPT ![p] = acc.node], result |-> acc.result - 1]

get_color(nodes, p) ==
    Color(nodes[p].color.red \div nodes[p].pixel_count,
          nodes[p].color.green \div nodes[p].pixel_count,
          nodes[p].color.blue \div nodes[p].pixel_count)

\* values a call hands back
IntValue(i) == [kind |-> "int", value |-> i]
NoneValue == [kind |-> "None", value |-> 0]
NoCall == [kind |-> "unset", value |-> 0]

\* the lookup without its fallback loop
first_child_from_none(nodes, p, i) == 8

RECURSIVE first_child_from(_, _, _)
first_child_from(nodes, p, i) ==
    IF i > 7 THEN 8
    ELSE IF HasChild(nodes, p, i) THEN i
    ELSE first_child_from(nodes, p, i + 1)

RECURSIVE node_get_palette_index(_, _, _, _)
node_get_palette_index(nodes, p, color, level) ==
    IF is_leaf(nodes, p) THEN IntValue(nodes[p].palette_index)
    ELSE LET index == get_color_index_for_level(color, level) IN
         IF HasChild(nodes, p, index)
         THEN node_get_palette_index(nodes, Append(p, index), color, level + 1)
         ELSE LET i == first_child_from(nodes, p, 0) IN
              IF i > 7 THEN NoneValue
              ELSE node_get_palette_index(nodes, Append(p, i), color, level + 1)

\* -------------------------------------------------------- OctreeQuantizer
Root == << >>

\* OctreeQuantizer(max_depth), after the class attribute was set to d
OctreeQuantizer_init(d) ==
    OctreeNode_init([nodes |-> NoNodes,
                     levels |-> [i \in 0 .. (d - 1) |-> << >>],
                     ok |-> TRUE], Root, 0, d)

get_leaves(nodes) == get_leaf_nodes(nodes, Root)

get_palette_index(nodes, color) == node_get_palette_index(nodes, Root, color, 0)

\* the frame of a make_palette call: the tree, the registry and the locals.
\* pc names the line the call is at; idx is the position of the inner for
\* loop in self.levels[level] (1-based), level = -1 once the range is used up.
make_palette_call(nodes, levels, color_count, MD) ==
    [pc |-> "level", nodes |-> nodes, levels |-> levels,
     color_count |-> color_count,
     leaf_count |-> Len(get_leaves(nodes)),
     level |-> MD - 1, idx |-> 0, palette |-> << >>]

\* for level in range(MAX_DEPTH - 1, -1, -1): if self.levels[level]:
level_head(f) ==
    IF f.level < 0 THEN [f EXCEPT !.pc = "palette"]
    ELSE IF f.level \notin DOMAIN f.levels THEN [f EXCEPT !.pc = "raised"]
    ELSE IF f.levels[f.level] # << >> THEN [f EXCEPT !.pc = "node", !.idx = 1]
    ELSE [f EXCEPT !.level = @ - 1]

\* one pass of: for node in self.levels[level]
reduce_node(f) ==
    LET node == f.levels[f.level][f.idx]
        r == remove_leaves(f.nodes, node)
        lc == f.leaf_count - r.result
    IN IF lc <= f.color_count
       THEN [f EXCEPT !.nodes = r.nodes, !.leaf_count = lc, !.pc = "after"]
       ELSE IF f.idx < Len(f.levels[f.level])
       THEN [f EXCEPT !.nodes = r.nodes, !.leaf_count = lc, !.idx = @ + 1]
       ELSE [f EXCEPT !.nodes = r.nodes, !.leaf_count = lc, !.pc = "after"]

\* after the inner loop: break out, or clear the level and go on
level_end(f) ==
    IF f.leaf_count <= f.color_count THEN [f EXCEPT !.pc = "palette"]
    ELSE [f EXCEPT !.levels[f.level] = << >>, !.level = @ - 1, !.idx = 0,
                   !.pc = "level"]

\* the palette loop from the k-th enumerated leaf on; acc is [nodes, palette]
RECURSIVE build_palette_from(_, _, _, _, _)
build_palette_from(acc, leaves, k, palette_index, color_count) ==
    IF k > Len(leaves) THEN acc
    ELSE IF palette_index >= color_count THEN acc
    ELSE LET node == leaves[k]
             pal == IF is_leaf(acc.nodes, node)
                    THEN Append(acc.palette, get_color(acc.nodes, node))
                    ELSE acc.palette
         IN build_palette_from(
              [nodes |-> [acc.nodes EXCEPT ![node].palette_index = palette_index],
               palette |-> pal],
              leaves, k + 1, palette_index + 1, color_count)

\* the palette loop breaking on palette_index > color_count
build_palette_late_break(f) ==
    LET acc == build_palette_from([nodes |-> f.nodes, palette |-> f.palette],
                                  get_leaves(f.nodes), 1, 0, f.color_count + 1)
    IN [f EXCEPT !.nodes = acc.nodes, !.palette = acc.palette, !.pc = "done"]

build_palette(f) ==
    LET acc == build_palette_from([nodes |-> f.nodes, palette |-> f.palette],
                                  get_leaves(f.nodes), 1, 0, f.color_count)
    IN [f EXCEPT !.nodes = acc.nodes, !.palette = acc.palette, !.pc = "done"]

make_palette_step(f) ==
    CASE f.pc = "level" -> level_head(f)
      [] f.pc = "node" -> reduce_node(f)
      [] f.pc = "after" -> level_end(f)
      [] f.pc = "palette" -> build_palette(f)
      [] OTHER -> f

\* the whole call, from its first line to its return or raise
RECURSIVE make_palette_run(_)
make_palette_run(f) ==
    IF f.pc \in {"done", "raised"} THEN f
    ELSE make_palette_run(make_palette_step(f))

make_palette(nodes, levels, color_count, MD) ==
    make_palette_run(make_palette_call(nodes, levels, color_count, MD))

\* ------------------------------------------------------------------ state
VARIABLES
    MAX_DEPTH,    \* the class attribute OctreeQuantizer.MAX_DEPTH
    max_depth,    \* the argument the quantizer was constructed with
    nodes,        \* the tree under self.root
    levels,       \* self.levels
    others,       \* quantizers constructed after this one
    added,        \* the colours passed to add_color, in call order
    pc,           \* "build", a line of make_palette, "done" or "raised"
    color_count,  \* make_palette's argument
    leaf_count,   \* make_palette's local
    level,        \* make_palette's outer loop variable
    idx,          \* position of make_palette's inner loop
    palette,      \* make_palette's local, then its return value
    result        \* what the last get_palette_index call handed back

vars == <<MAX_DEPTH, max_depth, nodes, levels, others, added, pc, color_count,
          leaf_count, level, idx, palette, result>>

Frame ==
    [pc |-> pc, nodes |-> nodes, levels |-> levels, color_count |-> color_count,
     leaf_count |-> leaf_count, level |-> level, idx |-> idx,
     palette |-> palette]

SetFrame(f) ==
    /\ pc' = f.pc
    /\ nodes' = f.nodes
    /\ levels' = f.levels
    /\ color_count' = f.color_count
    /\ leaf_count' = f.leaf_count
    /\ level' = f.level
    /\ idx' = f.idx
    /\ palette' = f.palette

Init ==
    \E d \in Depths :
        LET q == OctreeQuantizer_init(d) IN
        /\ MAX_DEPTH = d
        /\ max_depth = d
        /\ nodes = q.nodes
        /\ levels = q.levels
        /\ others = << >>
        /\ added = << >>
        /\ pc = "build"
        /\ color_count = 0
        /\ leaf_count = 0
        /\ level = 0
        /\ idx = 0
        /\ palette = << >>
        /\ result = NoCall

\* OctreeQuantizer.add_color
AddColor(c) ==
    /\ pc = "build"
    /\ Len(added) < MaxAdds
    /\ LET q == add_color([nodes |-> nodes, levels |-> levels, ok |-> TRUE],
                          Root, c, 0, MAX_DEPTH)
       IN /\ nodes' = q.nodes
          /\ levels' = q.levels
          /\ pc' = IF q.ok THEN "build" ELSE "raised"
    /\ added' = Append(added, c)
    /\ UNCHANGED <<MAX_DEPTH, max_depth, others, color_count, leaf_count,
                   level, idx, palette, result>>

\* OctreeQuantizer.make_palette, lines 127-129
MakePalette(cc) ==
    /\ pc = "build"
    /\ SetFrame(make_palette_call(nodes, levels, cc, MAX_DEPTH))
    /\ UNCHANGED <<MAX_DEPTH, max_depth, others, added, result>>

LevelHead ==
    /\ pc = "level"
    /\ SetFrame(level_head(Frame))
    /\ UNCHANGED <<MAX_DEPTH, max_depth, others, added, result>>

ReduceNode ==
    /\ pc = "node"
    /\ SetFrame(reduce_node(Frame))
    /\ UNCHANGED <<MAX_DEPTH, max_depth, others, added, result>>

LevelEnd ==
    /\ pc = "after"
    /\ SetFrame(level_end(Frame))
    /\ UNCHANGED <<MAX_DEPTH, max_depth, others, added, result>>

BuildPalette ==
    /\ pc = "palette"
    /\ SetFrame(build_palette(Frame))
    /\ UNCHANGED <<MAX_DEPTH, max_depth, others, added, result>>

\* OctreeQuantizer.get_palette_index.  Lookups follow make_palette; the one
\* lookup made earlier is on a quantizer no colour was added to.
GetPaletteIndex(c) ==
    /\ pc = "done" \/ (pc = "build" /\ added = << >>)
    /\ result' = get_palette_index(nodes, c)
    /\ UNCHANGED <<MAX_DEPTH, max_depth, nodes, levels, others, added, pc,
                   color_count, leaf_count, level, idx, palette>>

\* OctreeQuantizer(d) for a further quantizer, between two calls on this one
ConstructOther(d) ==
    /\ pc \in {"build", "done"}
    /\ Len(others) < MaxOthers
    /\ MAX_DEPTH' = d
    /\ others' = Append(others, OctreeQuantizer_init(d))
    /\ UNCHANGED <<max_depth, nodes, levels, added, pc, color_count,
                   leaf_count, level, idx, palette, result>>

Next ==
    \/ \E c \in AddColors : AddColor(c)
    \/ \E cc \in Targets : MakePalette(cc)
    \/ LevelHead
    \/ ReduceNode
    \/ LevelEnd
    \/ BuildPalette
    \/ \E c \in QueryColors : GetPaletteIndex(c)

Spec == Init /\ [][Next]_vars

\* the calls that feed and reduce the tree, for the claims about
\* add_color and make_palette alone
NextBuild ==
    \/ \E c \in AddColors : AddColor(c)
    \/ \E cc \in Targets : MakePalette(cc)
    \/ LevelHead
    \/ ReduceNode
    \/ LevelEnd
    \/ BuildPalette

SpecBuild == Init /\ [][NextBuild]_vars

NextMulti ==
    \/ Next
    \/ \E d \in Depths : ConstructOther(d)

SpecMulti == Init /\ [][NextMulti]_vars

\* ------------------------------------------------------------- properties
Range(seq) == { seq[k] : k \in 1 .. Len(seq) }

\* the branch indices a colour follows through its first n levels
ColorPath(c, n) == [l \in 1 .. n |-> get_color_index_for_level(c, l - 1)]

\* positions in added of the colours whose root path passes through p
Through(p) == { j \in 1 .. Len(added) : ColorPath(added[j], Len(p)) = p }

RECURSIVE ChannelSum(_, _)
ChannelSum(S, ch) ==
    IF S = {} THEN 0
    ELSE LET j == CHOOSE x \in S : TRUE IN
         (IF ch = "red" THEN added[j].red
          ELSE IF ch = "green" THEN added[j].green
          ELSE added[j].blue) + ChannelSum(S \ {j}, ch)

\* the reduction loops broke off with nodes of the level left unreduced
MidLevelStop(f) ==
    /\ f.level >= 0
    /\ f.level \in DOMAIN f.levels
    /\ f.idx < Len(f.levels[f.level])

\* a node above the depth limit holds pixels, i.e. it was reduced
SomeNodeReduced ==
    \E p \in DOMAIN nodes : Len(p) < MAX_DEPTH /\ is_leaf(nodes, p)

Normal == pc = "done" /\ added # << >> /\ color_count > 0

\* C1: after a non-empty sequence of add_color calls, make_palette(targetCount)
\* with targetCount > 0 returns a list of length L with 0 < L <= targetCount.
C1_PaletteLength ==
    Normal => (0 < Len(palette) /\ Len(palette) <= color_count)

\* more leaves survive than the target, and the palette is cut at the target
C1_Witness ==
    /\ Normal
    /\ Len(get_leaves(nodes)) > color_count
    /\ Len(palette) = color_count

\* C2: after make_palette(targetCount > 0) returned P, every added colour c has
\* P[get_palette_index(c)] equal to the average colour of the surviving leaf on
\* c's root path, also when more leaves survive than targetCount.
C2_ExactMatch ==
    Normal =>
      \A c \in Range(added) :
        LET r == get_palette_index(nodes, c) IN
        /\ r.kind = "int"
        /\ r.value >= 0 /\ r.value < Len(palette)
        /\ \E p \in Range(get_leaves(nodes)) :
              /\ p = ColorPath(c, Len(p))
              /\ palette[r.value + 1] = get_color(nodes, p)

\* C3: after at least one add_color and make_palette(targetCount > 0) returning
\* P, get_palette_index(c) is an integer i with 0 <= i < len(P) for every colour
\* c, added or not.
C3_IndexInRange ==
    Normal =>
      \A r \in QueryChannels, g \in QueryChannels, b \in QueryChannels :
        LET i == get_palette_index(nodes, Color(r, g, b)) IN
        /\ i.kind = "int"
        /\ 0 <= i.value /\ i.value < Len(palette)

\* a colour never added, whose branch is missing at the root, was looked up
\* through the first-existing-child fallback and got a position past the first
C3_Witness ==
    /\ Normal
    /\ \E c \in QueryColors \ Range(added) :
          /\ ~ HasChild(nodes, Root, get_color_index_for_level(c, 0))
          /\ result = get_palette_index(nodes, c)
          /\ result.kind = "int"
          /\ result.value > 0

\* C4: after make_palette, every leaf enumerated from the root holds exactly
\* the per-channel sums and the count of the added colours whose root path
\* passes through it, each added colour lying in exactly one leaf, so that its
\* get_color is the per-channel floor average of those colours.
C4_LeafSums ==
    pc = "done" =>
      LET leaves == get_leaves(nodes) IN
      /\ \A k \in 1 .. Len(leaves) :
           LET p == leaves[k]
               S == Through(p)
           IN /\ nodes[p].pixel_count = Cardinality(S)
              /\ nodes[p].color = Color(ChannelSum(S, "red"),
                                        ChannelSum(S, "green"),
                                        ChannelSum(S, "blue"))
              /\ Cardinality(S) > 0
              /\ get_color(nodes, p) =
                   Color(ChannelSum(S, "red") \div Cardinality(S),
                         ChannelSum(S, "green") \div Cardinality(S),
                         ChannelSum(S, "blue") \div Cardinality(S))
      /\ \A j \in 1 .. Len(added) :
           Cardinality({ k \in 1 .. Len(leaves) : j \in Through(leaves[k]) }) = 1

\* a reduced node holds several different colours whose average is rounded down
C4_Witness ==
    /\ pc = "done"
    /\ \E p \in Range(get_leaves(nodes)) :
          /\ Len(p) < max_depth
          /\ nodes[p].pixel_count >= 2
          /\ nodes[p].color.red % nodes[p].pixel_count # 0

\* C5: make_palette with targetCount <= 0 is rejected with an error: it returns
\* no palette and reduces no node.
C5_RejectsNonPositive ==
    (pc # "build" /\ color_count <= 0) => (pc # "done" /\ ~ SomeNodeReduced)

\* C6: get_palette_index on a quantizer no colour was added to raises; it hands
\* back no value.
C6_EmptyLookupRaises ==
    added = << >> => result.kind \notin {"int", "None"}

\* the tree grown by feeding seq[k..] to add_color
RECURSIVE Feed(_, _, _, _)
Feed(q, seq, k, MD) ==
    IF k > Len(seq) THEN q
    ELSE Feed(add_color(q, Root, seq[k], 0, MD), seq, k + 1, MD)

\* the sequences holding the colours of added in another order
Reorderings ==
    { [k \in 1 .. Len(added) |-> added[f[k]]] :
        f \in Permutations(1 .. Len(added)) } \ {added}

\* a fresh quantizer fed seq
Fed(seq) == Feed(OctreeQuantizer_init(max_depth), seq, 1, max_depth)

\* make_palette(color_count) on a fresh quantizer fed seq
Reordered(seq) ==
    LET q == Fed(seq) IN
    make_palette(q.nodes, q.levels, color_count, max_depth)

\* C7: two fresh quantizers fed the same colours in different orders and given
\* the same targetCount > 0 return the same palette and agree on every lookup,
\* provided neither reduction stopped inside a level's node list.
C7_OrderIndependent ==
    (Normal /\ ~ MidLevelStop(Frame)) =>
      \A other \in { Reordered(seq) : seq \in Reorderings } :
        ~ MidLevelStop(other) =>
          /\ other.palette = palette
          /\ \A c \in QueryColors :
               get_palette_index(other.nodes, c) = get_palette_index(nodes, c)

\* the colours fed in another order register the nodes of a level in another
\* order, and both reductions stop at the last node of a level
C7_Witness ==
    /\ Normal
    /\ ~ MidLevelStop(Frame)
    /\ level >= 0 /\ idx >= 1
    /\ SomeNodeReduced
    /\ \E seq \in Reorderings :
          /\ ~ MidLevelStop(Reordered(seq))
          /\ Fed(seq).levels # Fed(added).levels

\* C8: the depth limit an instance works with is the max_depth it was
\* constructed with, whatever other quantizers are constructed meanwhile: its
\* add_color creates the leaves at that depth and its calls do not fail.
C8_DepthPerInstance ==
    /\ pc # "raised"
    /\ pc = "build" =>
         \A p \in DOMAIN nodes : is_leaf(nodes, p) => Len(p) = max_depth

\* C9: during make_palette, after every remove_leaves call the running
\* leaf_count equals the number of leaves enumerable from the root.
C9_LeafCountExact ==
    (/\ added # << >>
     /\ color_count > 0
     /\ pc = "after" \/ (pc = "node" /\ idx > 1))
    => leaf_count = Len(get_leaves(nodes))

\* number of distinct colours added
Distinct == Cardinality(Range(added))

\* C10: make_palette calls remove_leaves only while the number of leaves still
\* exceeds targetCount; when the added colours are at most targetCount distinct
\* colours, no node is reduced and the palette is exactly those colours.
C10_MergeOnlyWhenNeeded ==
    /\ (pc = "node" /\ added # << >> /\ color_count > 0)
         => Len(get_leaves(nodes)) > color_count
    /\ (Normal /\ Distinct <= color_count)
         => /\ ~ SomeNodeReduced
            /\ Len(palette) = Distinct
            /\ Range(palette) = Range(added)

====
